---- MODULE Spec2Model ----
(***************************************************************************)
(* A model of two tools of xmcp.sportcarslux.com:                         *)
(*   - get-vercel-top-pages (src/src/tools/get-vercel-top-pages.ts): the   *)
(*     CSV catalog resolver, row loader, filter/sort/limit pipeline and    *)
(*     renderer;                                                           *)
(*   - update-price (src/unnamed/part_000): lookup-then-update of one      *)
(*     vehicle's price in the hosted store.                                *)
(* A JavaScript string is a sequence of one-character strings, so that     *)
(* endsWith, startsWith, includes, basename, trim, split, toLowerCase and  *)
(* the default sort order are computed character by character.             *)
(***************************************************************************)
EXTENDS Integers, Sequences, FiniteSets, TLC

VARIABLES
    \* getVercelTopPages: one invocation and the directory it reads
    pc, args, dir, content, selectedFile, rows, filtered, sorted, top, caught, result,
    \* parseCsvLine: the fields a line is built from, the line, the fields parsed
    source, line, fields,
    \* toNumber: the raw text and the number returned
    value, coerced,
    \* updatePrice: the vehicles table and the invocations in flight
    vehicles, calls

vars == <<pc, args, dir, content, selectedFile, rows, filtered, sorted, top, caught, result,
          source, line, fields, value, coerced, vehicles, calls>>

topPagesVars == <<pc, args, dir, content, selectedFile, rows, filtered, sorted, top, caught,
                  result>>
parseVars    == <<source, line, fields>>
numberVars   == <<value, coerced>>
priceVars    == <<vehicles, calls>>

\* A variable that has no value yet.
None == "none"

-----------------------------------------------------------------------------
(* Strings *)

\* Printable ASCII in code-unit order: Ascii[i] has code unit 31 + i (the grave
\* accent, code unit 96, is spelled out).
Ascii ==
    <<" ", "!", "\"", "#", "$", "%", "&", "'", "(", ")", "*", "+", ",", "-", ".", "/",
      "0", "1", "2", "3", "4", "5", "6", "7", "8", "9", ":", ";", "<", "=", ">", "?",
      "@", "A", "B", "C", "D", "E", "F", "G", "H", "I", "J", "K", "L", "M", "N", "O",
      "P", "Q", "R", "S", "T", "U", "V", "W", "X", "Y", "Z", "[", "\\", "]", "^", "_",
      "grave", "a", "b", "c", "d", "e", "f", "g", "h", "i", "j", "k", "l", "m", "n", "o",
      "p", "q", "r", "s", "t", "u", "v", "w", "x", "y", "z", "{", "|", "}", "~">>

Controls == {"\t", "\n", "\r"}

CodeUnitTable ==
    [c \in {Ascii[i] : i \in 1..Len(Ascii)} \cup Controls |->
        IF c = "\t" THEN 9
        ELSE IF c = "\n" THEN 10
        ELSE IF c = "\r" THEN 13
        ELSE 31 + (CHOOSE i \in 1..Len(Ascii) : Ascii[i] = c)]

CodeUnit(c) == CodeUnitTable[c]

\* Every string of at most n characters over the alphabet A.
StringsUpTo(A, n) == UNION {[1..k -> A] : k \in 0..n}

\* The substring s[from..to] (1-based, inclusive; empty when from > to).
Slice(s, from, to) == IF from > to THEN <<>> ELSE SubSeq(s, from, to)

\* String.prototype.startsWith / endsWith / includes.
StartsWith(s, prefix) ==
    /\ Len(prefix) <= Len(s)
    /\ \A i \in 1..Len(prefix) : s[i] = prefix[i]

EndsWith(s, suffix) ==
    /\ Len(suffix) <= Len(s)
    /\ \A i \in 1..Len(suffix) : s[Len(s) - Len(suffix) + i] = suffix[i]

Includes(s, needle) ==
    \E k \in 0..(Len(s) - Len(needle)) :
        \A i \in 1..Len(needle) : s[k + i] = needle[i]

\* String.prototype.toLowerCase on ASCII: A-Z (65..90) map to a-z (97..122).
LowerChar(c) ==
    IF CodeUnit(c) >= 65 /\ CodeUnit(c) <= 90 THEN Ascii[CodeUnit(c) + 32 - 31] ELSE c

ToLowerCase(s) == [i \in 1..Len(s) |-> LowerChar(s[i])]

\* String.prototype.trim: drops leading and trailing white space.
WhiteSpace == {" ", "\t", "\n", "\r"}

RECURSIVE TrimStart(_)
TrimStart(s) ==
    IF s # <<>> /\ Head(s) \in WhiteSpace THEN TrimStart(Tail(s)) ELSE s

RECURSIVE TrimEnd(_)
TrimEnd(s) ==
    IF s # <<>> /\ s[Len(s)] \in WhiteSpace THEN TrimEnd(Slice(s, 1, Len(s) - 1)) ELSE s

Trim(s) == TrimEnd(TrimStart(s))

\* The order Array.prototype.sort() uses without a comparator: by code units,
\* a proper prefix before the longer string.
RECURSIVE StrLess(_, _)
StrLess(a, b) ==
    IF a = <<>> THEN b # <<>>
    ELSE IF b = <<>> THEN FALSE
    ELSE IF Head(a) # Head(b) THEN CodeUnit(Head(a)) < CodeUnit(Head(b))
    ELSE StrLess(Tail(a), Tail(b))

-----------------------------------------------------------------------------
(* parseCsvLine *)

RECURSIVE parseCsvLineFrom(_, _, _, _, _)
parseCsvLineFrom(ln, i, acc, current, inQuotes) ==
    IF i > Len(ln) THEN Append(acc, current)
    ELSE LET char == ln[i] IN
         IF char = "\"" THEN
             IF inQuotes /\ i + 1 <= Len(ln) /\ ln[i + 1] = "\""
             THEN parseCsvLineFrom(ln, i + 2, acc, Append(current, "\""), inQuotes)
             ELSE parseCsvLineFrom(ln, i + 1, acc, current, ~inQuotes)
         ELSE IF char = "," /\ ~inQuotes
             THEN parseCsvLineFrom(ln, i + 1, Append(acc, current), <<>>, inQuotes)
             ELSE parseCsvLineFrom(ln, i + 1, acc, Append(current, char), inQuotes)

\* parseCsvLine without lines 83-85: every double quote toggles the quoted mode.
RECURSIVE parseCsvLineToggleFrom(_, _, _, _, _)
parseCsvLineToggleFrom(ln, i, acc, current, inQuotes) ==
    IF i > Len(ln) THEN Append(acc, current)
    ELSE LET char == ln[i] IN
         IF char = "\"" THEN parseCsvLineToggleFrom(ln, i + 1, acc, current, ~inQuotes)
         ELSE IF char = "," /\ ~inQuotes
             THEN parseCsvLineToggleFrom(ln, i + 1, Append(acc, current), <<>>, inQuotes)
             ELSE parseCsvLineToggleFrom(ln, i + 1, acc, Append(current, char), inQuotes)

parseCsvLineToggleOnly(ln) == parseCsvLineToggleFrom(ln, 1, <<>>, <<>>, FALSE)

parseCsvLine(ln) == parseCsvLineFrom(ln, 1, <<>>, <<>>, FALSE)

-----------------------------------------------------------------------------
(* toNumber *)

Digits == {"0", "1", "2", "3", "4", "5", "6", "7", "8", "9"}

IsDigits(s) == s # <<>> /\ \A i \in 1..Len(s) : s[i] \in Digits

RECURSIVE DigitsValue(_)
DigitsValue(s) ==
    IF s = <<>> THEN 0
    ELSE 10 * DigitsValue(Slice(s, 1, Len(s) - 1)) + (CodeUnit(s[Len(s)]) - 48)

InfinityText == <<"I", "n", "f", "i", "n", "i", "t", "y">>

NaN == [kind |-> "NaN"]
Finite(n) == [kind |-> "finite", n |-> n]
Infinite(sign) == [kind |-> "Infinity", sign |-> sign]

\* Number(text), the string-to-number conversion: white space is trimmed, the
\* empty string is 0, an optionally signed run of decimal digits is its value,
\* an optionally signed "Infinity" is infinite, and other text is NaN.  (The
\* texts drawn below hold no '.', exponent or radix prefix, the other forms
\* the conversion accepts.)
Number(text) ==
    LET t == Trim(text)
        signed == t # <<>> /\ Head(t) \in {"+", "-"}
        sign == IF signed /\ Head(t) = "-" THEN -1 ELSE 1
        body == IF signed THEN Tail(t) ELSE t
    IN  IF t = <<>> THEN Finite(0)
        ELSE IF IsDigits(body) THEN Finite(sign * DigitsValue(body))
        ELSE IF body = InfinityText THEN Infinite(sign)
        ELSE NaN

\* value.replace(/,/g, "")
RemoveCommas(s) == SelectSeq(s, LAMBDA c : c # ",")

\* Number.isFinite
IsFinite(x) == x.kind = "finite"

toNumber(text) ==
    LET p == Number(Trim(RemoveCommas(text)))
    IN  IF IsFinite(p) THEN p.n ELSE 0

-----------------------------------------------------------------------------
(* Optional schema fields and thrown errors *)

\* An optional field is <<>> when the caller left it out and <<v>> when given.
Absent == <<>>
Some(v) == <<v>>
IsGiven(opt) == opt # <<>>
Get(opt) == opt[1]

\* JavaScript truthiness of an optional string, number or boolean field.
TruthyString(opt) == IsGiven(opt) /\ Get(opt) # <<>>
TruthyNumber(opt) == IsGiven(opt) /\ Get(opt) # 0
TruthyBoolean(opt) == IsGiven(opt) /\ Get(opt) = TRUE

\* The outcome of a call that may throw: a value, or a thrown Error.
Return(v) == [threw |-> FALSE, value |-> v]
Throw(message) == [threw |-> TRUE, isError |-> TRUE, message |-> message]

-----------------------------------------------------------------------------
(* Report catalog *)

DEFAULT_FILE ==
    <<"T", "o", "p", " ", "P", "a", "g", "e", "s", " ", "-", " ", "N", "o", "v", " ", "1", "3", " ", "'", "2", "5", ",", " ", "1", "1", "p", "m", " ", "-", " ", "F", "e", "b", " ", "1", "3", " ", "'", "2", "6", ".", "c", "s", "v">>

REPORT_LABELS ==
    << <<"T", "o", "p", " ", "P", "a", "g", "e", "s">>,
       <<"T", "o", "p", " ", "R", "e", "f", "e", "r", "r", "e", "r", "s">>,
       <<"T", "o", "p", " ", "C", "o", "u", "n", "t", "r", "i", "e", "s">>,
       <<"T", "o", "p", " ", "B", "r", "o", "w", "s", "e", "r", "s">>,
       <<"T", "o", "p", " ", "D", "e", "v", "i", "c", "e", "s">>,
       <<"T", "o", "p", " ", "O", "p", "e", "r", "a", "t", "i", "n", "g", " ", "S", "y", "s", "t", "e", "m", "s">> >>

\* The values of the reportType enum, as the text they are.
Pages == <<"p", "a", "g", "e", "s">>
Referrers == <<"r", "e", "f", "e", "r", "r", "e", "r", "s">>
Countries == <<"c", "o", "u", "n", "t", "r", "i", "e", "s">>
Browsers == <<"b", "r", "o", "w", "s", "e", "r", "s">>
Devices == <<"d", "e", "v", "i", "c", "e", "s">>
OperatingSystems == <<"o", "p", "e", "r", "a", "t", "i", "n", "g", "-", "s", "y", "s", "t", "e", "m", "s">>

CsvSuffix == <<".", "c", "s", "v">>
LabelSeparator == <<" ", "-", " ">>

NoCsvFilesMessage ==
    <<"N", "o", " ", "C", "S", "V", " ", "f", "i", "l", "e", "s", " ", "f", "o", "u", "n", "d", " ", "i", "n", " ", "s", "r", "c", "/", "l", "i", "b", "/", "v", "e", "r", "c", "e", "l">>
NotCsvMessage ==
    <<"f", "i", "l", "e", "N", "a", "m", "e", " ", "m", "u", "s", "t", " ", "b", "e", " ", "a", " ", ".", "c", "s", "v", " ", "f", "i", "l", "e">>
NotFoundPrefix ==
    <<"C", "S", "V", " ", "f", "i", "l", "e", " ", "n", "o", "t", " ", "f", "o", "u", "n", "d", ":", " ">>
NoMatchPrefix ==
    <<"N", "o", " ", "C", "S", "V", " ", "f", "o", "u", "n", "d", " ", "f", "o", "r", " ", "r", "e", "p", "o", "r", "t", "T", "y", "p", "e", " ", "'">>

\* path.basename (POSIX): trailing slashes are dropped, then everything up to
\* the last slash.
RECURSIVE StripTrailingSlashes(_)
StripTrailingSlashes(p) ==
    IF p # <<>> /\ p[Len(p)] = "/" THEN StripTrailingSlashes(Slice(p, 1, Len(p) - 1)) ELSE p

RECURSIVE AfterLastSlash(_)
AfterLastSlash(p) ==
    IF \E i \in 1..Len(p) : p[i] = "/" THEN AfterLastSlash(Tail(p)) ELSE p

\* path.basename that keeps the directory component.
BasenameKeepingDirectory(p) == p

Basename(p) == AfterLastSlash(StripTrailingSlashes(p))

\* The least string of a non-empty set, and the set as files.sort() orders it.
LeastString(S) == CHOOSE s \in S : \A t \in S : t = s \/ StrLess(s, t)

RECURSIVE SortStrings(_)
SortStrings(S) ==
    IF S = {} THEN <<>>
    ELSE LET s == LeastString(S) IN <<s>> \o SortStrings(S \ {s})

\* files.filter((f) => f.endsWith(".csv")).sort()
CsvFiles(files) == SortStrings({f \in files : EndsWith(f, CsvSuffix)})

\* csvFiles.includes(name)
Contains(seq, x) == \E i \in 1..Len(seq) : seq[i] = x

\* resolveFileName after readdir: files is the listing, requested the optional name.
resolveFileName(files, requested) ==
    LET csvFiles == CsvFiles(files)
        clean == Basename(Get(requested))
    IN  IF Len(csvFiles) = 0 THEN Throw(NoCsvFilesMessage)
        ELSE IF TruthyString(requested) THEN
            IF ~EndsWith(clean, CsvSuffix) THEN Throw(NotCsvMessage)
            ELSE IF ~Contains(csvFiles, clean) THEN Throw(NotFoundPrefix \o clean)
            ELSE Return(clean)
        ELSE IF Contains(csvFiles, DEFAULT_FILE) THEN Return(DEFAULT_FILE)
        ELSE Return(csvFiles[Len(csvFiles)])

toReportLabel(reportType) ==
    CASE reportType = Pages -> REPORT_LABELS[1]
      [] reportType = Referrers -> REPORT_LABELS[2]
      [] reportType = Countries -> REPORT_LABELS[3]
      [] reportType = Browsers -> REPORT_LABELS[4]
      [] reportType = Devices -> REPORT_LABELS[5]
      [] reportType = OperatingSystems -> REPORT_LABELS[6]

RECURSIVE inferReportLabelFrom(_, _)
inferReportLabelFrom(fileName, i) ==
    IF i > Len(REPORT_LABELS) THEN <<"U", "n", "k", "n", "o", "w", "n">>
    ELSE IF StartsWith(fileName, REPORT_LABELS[i] \o LabelSeparator) THEN REPORT_LABELS[i]
    ELSE inferReportLabelFrom(fileName, i + 1)

inferReportLabel(fileName) == inferReportLabelFrom(fileName, 1)

\* fileName.replace(/\.csv$/i, "")
StripCsvSuffix(s) ==
    IF Len(s) >= 4 /\ ToLowerCase(Slice(s, Len(s) - 3, Len(s))) = CsvSuffix
    THEN Slice(s, 1, Len(s) - 4)
    ELSE s

\* s.replace(/^Top [^-]+ - /, ""): "Top ", one or more characters that are not a
\* dash, then " - "; the dash of the match is the first dash after "Top ".
StripTopPrefix(s) ==
    LET dashes == {i \in 5..Len(s) : s[i] = "-"}
        d == CHOOSE i \in dashes : \A j \in dashes : i <= j
    IN  IF /\ StartsWith(s, <<"T", "o", "p", " ">>)
           /\ dashes # {}
           /\ d >= 7 /\ s[d - 1] = " "
           /\ d + 1 <= Len(s) /\ s[d + 1] = " "
        THEN Slice(s, d + 2, Len(s))
        ELSE s

extractDateRange(fileName) == StripTopPrefix(StripCsvSuffix(fileName))

\* matches[0] in place of matches[matches.length - 1].
resolveFileNameByTypeFirst(files, reportType) ==
    LET csvFiles == CsvFiles(files)
        label == toReportLabel(reportType)
        matches == SelectSeq(csvFiles, LAMBDA f : StartsWith(f, label \o LabelSeparator))
    IN  IF Len(matches) = 0 THEN Throw(NoMatchPrefix \o reportType \o <<"'">>)
        ELSE Return(matches[1])

\* resolveFileNameByType after readdir.
resolveFileNameByType(files, reportType) ==
    LET csvFiles == CsvFiles(files)
        label == toReportLabel(reportType)
        matches == SelectSeq(csvFiles, LAMBDA f : StartsWith(f, label \o LabelSeparator))
    IN  IF Len(matches) = 0 THEN Throw(NoMatchPrefix \o reportType \o <<"'">>)
        ELSE Return(matches[Len(matches)])

\* listAvailableReports after readdir.
listAvailableReports(files) ==
    LET csvFiles == CsvFiles(files)
    IN  [i \in 1..Len(csvFiles) |->
            [label |-> inferReportLabel(csvFiles[i]),
             dateRange |-> extractDateRange(csvFiles[i]),
             file |-> csvFiles[i]]]

-----------------------------------------------------------------------------
(* Row loader *)

\* content.split(/\r?\n/): the pieces between line breaks, a carriage return
\* just before a line feed being part of the break.
RECURSIVE SplitLinesFrom(_, _)
SplitLinesFrom(text, start) ==
    LET feeds == {i \in start..Len(text) : text[i] = "\n"}
        feed == CHOOSE i \in feeds : \A j \in feeds : i <= j
        last == IF feed - 1 >= start /\ text[feed - 1] = "\r" THEN feed - 2 ELSE feed - 1
    IN  IF feeds = {} THEN <<Slice(text, start, Len(text))>>
        ELSE <<Slice(text, start, last)>> \o SplitLinesFrom(text, feed + 1)

SplitLines(text) == SplitLinesFrom(text, 1)

\* .map((line) => line.trim()).filter(Boolean)
NonBlankLines(text) ==
    LET parts == SplitLines(text)
        trimmed == [i \in 1..Len(parts) |-> Trim(parts[i])]
    IN  SelectSeq(trimmed, LAMBDA l : l # <<>>)

\* fields[k], or undefined: <<>> stands for undefined and for the empty string,
\* which `!pageRaw` and `raw || "0"` treat alike.
FieldAt(fs, k) == IF k <= Len(fs) THEN fs[k] ELSE <<>>

OrZero(raw) == IF raw = <<>> THEN <<"0">> ELSE raw

RECURSIVE loadRowsFrom(_, _)
loadRowsFrom(lines, i) ==
    IF i > Len(lines) THEN <<>>
    ELSE LET fs == parseCsvLine(lines[i])
             pageRaw == FieldAt(fs, 1)
             visitorsRaw == FieldAt(fs, 2)
             totalRaw == FieldAt(fs, 3)
         IN  IF pageRaw = <<>> THEN loadRowsFrom(lines, i + 1)
             ELSE <<[item |-> pageRaw,
                     visitors |-> toNumber(OrZero(visitorsRaw)),
                     total |-> toNumber(OrZero(totalRaw))]>>
                  \o loadRowsFrom(lines, i + 1)

\* loadRows after readFile: text is the file's content.
loadRows(text) ==
    LET lines == NonBlankLines(text)
    IN  IF Len(lines) <= 1 THEN <<>> ELSE loadRowsFrom(lines, 2)

-----------------------------------------------------------------------------
(* The variables of the tools a specification does not exercise stay put. *)

TopPagesIdle ==
    /\ pc = "idle" /\ args = None /\ dir = None /\ content = None
    /\ selectedFile = None /\ rows = None /\ filtered = None /\ sorted = None
    /\ top = None /\ caught = None /\ result = None

ParseIdle == source = None /\ line = None /\ fields = <<>>

NumberIdle == value = None /\ coerced = <<>>

PriceIdle == vehicles = None /\ calls = None

-----------------------------------------------------------------------------
(* Query pipeline and renderer *)

\* The callback with pageContains compared as written, without toLowerCase.
KeepRowCaseSensitive(row, a) ==
    IF TruthyString(a.pageContains) /\ ~Includes(row.item, Get(a.pageContains))
    THEN FALSE
    ELSE IF TruthyString(a.startsWith) /\ ~StartsWith(row.item, Get(a.startsWith))
    THEN FALSE
    ELSE IF IsGiven(a.minVisitors) /\ row.visitors < Get(a.minVisitors)
    THEN FALSE
    ELSE IF IsGiven(a.minTotal) /\ row.total < Get(a.minTotal)
    THEN FALSE
    ELSE TRUE

\* The callback of rows.filter: a row is dropped by the first predicate it fails.
KeepRow(row, a) ==
    IF TruthyString(a.pageContains)
          /\ ~Includes(ToLowerCase(row.item), ToLowerCase(Get(a.pageContains)))
    THEN FALSE
    ELSE IF TruthyString(a.startsWith) /\ ~StartsWith(row.item, Get(a.startsWith))
    THEN FALSE
    ELSE IF IsGiven(a.minVisitors) /\ row.visitors < Get(a.minVisitors)
    THEN FALSE
    ELSE IF IsGiven(a.minTotal) /\ row.total < Get(a.minTotal)
    THEN FALSE
    ELSE TRUE

FilterRows(rs, a) == SelectSeq(rs, LAMBDA row : KeepRow(row, a))

\* sortBy || "visitors" and sortOrder || "desc" (an enum value is never empty).
SortField(a) == IF IsGiven(a.sortBy) THEN Get(a.sortBy) ELSE "visitors"
SortDirection(a) == IF IsGiven(a.sortOrder) THEN Get(a.sortOrder) ELSE "desc"

\* The comparator with the direction ignored.
CompareAscending(x, y, by, order) ==
    IF by = "visitors" THEN x.visitors - y.visitors ELSE x.total - y.total

\* The comparator handed to sort.
Compare(x, y, by, order) ==
    LET diff == IF by = "visitors" THEN x.visitors - y.visitors ELSE x.total - y.total
    IN  IF order = "asc" THEN diff ELSE 0 - diff

\* Array.prototype.sort with that comparator: a stable sort, here by insertion,
\* each row going after the rows already placed that do not compare greater.
InsertRow(placed, row, by, order) ==
    LET before == SelectSeq(placed, LAMBDA p : Compare(p, row, by, order) <= 0)
        after == SelectSeq(placed, LAMBDA p : Compare(p, row, by, order) > 0)
    IN  before \o <<row>> \o after

RECURSIVE SortPrefix(_, _, _, _)
SortPrefix(rs, n, by, order) ==
    IF n = 0 THEN <<>>
    ELSE InsertRow(SortPrefix(rs, n - 1, by, order), rs[n], by, order)

SortRows(rs, by, order) == SortPrefix(rs, Len(rs), by, order)

Min(x, y) == IF x <= y THEN x ELSE y
Max(x, y) == IF x >= y THEN x ELSE y

DefaultLimit == 20
MaxLimit == 200

\* Math.max(1, Math.min(limit || 20, 200))
MaxRows(a) ==
    Max(1, Min(IF TruthyNumber(a.limit) THEN Get(a.limit) ELSE DefaultLimit, MaxLimit))

\* seq.slice(0, n)
Take(seq, n) == Slice(seq, 1, Min(n, Len(seq)))

\* seq.reduce((sum, row) => sum + row[field], 0)
RECURSIVE SumVisitors(_)
SumVisitors(rs) == IF rs = <<>> THEN 0 ELSE Head(rs).visitors + SumVisitors(Tail(rs))

RECURSIVE SumTotal(_)
SumTotal(rs) == IF rs = <<>> THEN 0 ELSE Head(rs).total + SumTotal(Tail(rs))

\* The summary with its totals taken over the displayed slice.
SummaryOfTop(file, scanned, matched, shown) ==
    [reportLabel |-> inferReportLabel(file),
     dateRange |-> extractDateRange(file),
     file |-> file,
     rowsScanned |-> scanned,
     rowsMatched |-> Len(shown),
     totalVisitors |-> SumVisitors(shown),
     totalVisits |-> SumTotal(shown)]

\* The summary block, lines 265-272.
Summary(file, scanned, matched, shown) ==
    [reportLabel |-> inferReportLabel(file),
     dateRange |-> extractDateRange(file),
     file |-> file,
     rowsScanned |-> scanned,
     rowsMatched |-> Len(matched),
     totalVisitors |-> SumVisitors(matched),
     totalVisits |-> SumTotal(matched)]

\* The text returned after the pipeline, kept as the values its lines print:
\* the "no rows" message, or the optional summary, the heading and the ranked rows.
Render(file, scanned, matched, shown, a) ==
    IF Len(shown) = 0
    THEN [kind |-> "noRows",
          reportLabel |-> inferReportLabel(file),
          dateRange |-> extractDateRange(file),
          file |-> file,
          rowsScanned |-> scanned]
    ELSE [kind |-> "report",
          summary |-> IF a.includeSummary # Some(FALSE)
                      THEN <<Summary(file, scanned, matched, shown)>>
                      ELSE <<>>,
          heading |-> [count |-> Len(shown), by |-> SortField(a), order |-> SortDirection(a)],
          ranked |-> shown]

\* The pipeline of lines 235-284 on loaded rows: what each step leaves.
Query(file, rs, a) ==
    LET matched == FilterRows(rs, a)
        ordered == SortRows(matched, SortField(a), SortDirection(a))
        shown == Take(ordered, MaxRows(a))
    IN  [filtered |-> matched,
         sorted |-> ordered,
         top |-> shown,
         result |-> Render(file, Len(rs), ordered, shown, a)]

ErrorPrefix ==
    <<"E", "r", "r", "o", "r", " ", "r", "e", "a", "d", "i", "n", "g", " ", "V", "e", "r", "c", "e", "l", " ", "a", "n", "a", "l", "y", "t", "i", "c", "s", " ", "C", "S", "V", ":", " ">>
UnknownError ==
    <<"U", "n", "k", "n", "o", "w", "n", " ", "e", "r", "r", "o", "r">>

\* A handler without the try/catch: the error leaves the call.
CatchNothing(e) == [kind |-> "rejected", text |-> <<>>]

\* The catch clause: the error becomes the text returned.
Catch(e) ==
    [kind |-> "error",
     text |-> ErrorPrefix \o (IF e.isError THEN e.message ELSE UnknownError)]

-----------------------------------------------------------------------------
(* getVercelTopPages: one invocation, a step per awaited I/O operation *)

\* readdir and readFile resolve with what the disk holds or reject with an Error.
readdir(d) == IF d.ok THEN Return(d.files) ELSE Throw(d.message)
readFile(c) == IF c.ok THEN Return(c.text) ELSE Throw(c.message)

Pending == [kind |-> "pending"]

\* listReports: the catalog listing, lines 223-227.
ListReports ==
    /\ pc = "start"
    /\ TruthyBoolean(args.listReports)
    /\ LET listing == readdir(dir)
           reports == listAvailableReports(listing.value)
       IN  IF listing.threw
           THEN caught' = <<listing>> /\ result' = Catch(listing)
           ELSE /\ caught' = <<>>
                /\ result' = IF Len(reports) = 0
                             THEN [kind |-> "noReports"]
                             ELSE [kind |-> "list", reports |-> reports]
    /\ pc' = "done"
    /\ UNCHANGED <<args, dir, content, selectedFile, rows, filtered, sorted, top>>
    /\ UNCHANGED <<parseVars, numberVars, priceVars>>

\* fileName given: resolveFileName(fileName), line 230.
ResolveFileName ==
    /\ pc = "start"
    /\ ~TruthyBoolean(args.listReports)
    /\ TruthyString(args.fileName)
    /\ LET listing == readdir(dir)
           resolved == IF listing.threw THEN listing
                       ELSE resolveFileName(listing.value, args.fileName)
       IN  IF resolved.threw
           THEN /\ caught' = <<resolved>>
                /\ result' = Catch(resolved)
                /\ pc' = "done"
                /\ UNCHANGED selectedFile
           ELSE /\ selectedFile' = resolved.value
                /\ pc' = "load"
                /\ UNCHANGED <<caught, result>>
    /\ UNCHANGED <<args, dir, content, rows, filtered, sorted, top>>
    /\ UNCHANGED <<parseVars, numberVars, priceVars>>

\* no fileName: resolveFileNameByType(reportType || "pages"), line 231.
ResolveFileNameByType ==
    /\ pc = "start"
    /\ ~TruthyBoolean(args.listReports)
    /\ ~TruthyString(args.fileName)
    /\ LET listing == readdir(dir)
           reportType == IF TruthyString(args.reportType) THEN Get(args.reportType) ELSE Pages
           resolved == IF listing.threw THEN listing
                       ELSE resolveFileNameByType(listing.value, reportType)
       IN  IF resolved.threw
           THEN /\ caught' = <<resolved>>
                /\ result' = Catch(resolved)
                /\ pc' = "done"
                /\ UNCHANGED selectedFile
           ELSE /\ selectedFile' = resolved.value
                /\ pc' = "load"
                /\ UNCHANGED <<caught, result>>
    /\ UNCHANGED <<args, dir, content, rows, filtered, sorted, top>>
    /\ UNCHANGED <<parseVars, numberVars, priceVars>>

\* loadRows(selectedFile), line 232.
LoadRows ==
    /\ pc = "load"
    /\ LET read == readFile(content)
       IN  IF read.threw
           THEN /\ caught' = <<read>>
                /\ result' = Catch(read)
                /\ pc' = "done"
                /\ UNCHANGED rows
           ELSE /\ rows' = loadRows(read.value)
                /\ pc' = "query"
                /\ UNCHANGED <<caught, result>>
    /\ UNCHANGED <<args, dir, content, selectedFile, filtered, sorted, top>>
    /\ UNCHANGED <<parseVars, numberVars, priceVars>>

\* filter, sort, limit and render, lines 233-284.
RunQuery ==
    /\ pc = "query"
    /\ LET q == Query(selectedFile, rows, args)
       IN  /\ filtered' = q.filtered
           /\ sorted' = q.sorted
           /\ top' = q.top
           /\ result' = q.result
    /\ pc' = "done"
    /\ UNCHANGED <<args, dir, content, selectedFile, rows, caught>>
    /\ UNCHANGED <<parseVars, numberVars, priceVars>>

-----------------------------------------------------------------------------
(* The invocations and the disk the model draws *)

DefaultArgs ==
    [reportType |-> Absent, fileName |-> Absent, listReports |-> Absent,
     pageContains |-> Absent, startsWith |-> Absent,
     minVisitors |-> Absent, minTotal |-> Absent,
     sortBy |-> Absent, sortOrder |-> Absent,
     limit |-> Absent, includeSummary |-> Absent]

PagesOctFile ==
    <<"T", "o", "p", " ", "P", "a", "g", "e", "s", " ", "-", " ", "O", "c", "t", " ", "1", " ", "'", "2", "6", ".", "c", "s", "v">>
ReferrersFile ==
    <<"T", "o", "p", " ", "R", "e", "f", "e", "r", "r", "e", "r", "s", " ", "-", " ", "J", "a", "n", " ", "1", ",", " ", "2", "6", ".", "c", "s", "v">>
SecretFile ==
    <<"s", "e", "c", "r", "e", "t", ".", "c", "s", "v">>
NotesFile ==
    <<"n", "o", "t", "e", "s", ".", "t", "x", "t">>

DirectoryFiles == {DEFAULT_FILE, PagesOctFile, ReferrersFile, SecretFile, NotesFile}

ENOENT ==
    <<"E", "N", "O", "E", "N", "T", ":", " ", "n", "o", " ", "s", "u", "c", "h", " ", "f", "i", "l", "e", " ", "o", "r", " ", "d", "i", "r", "e", "c", "t", "o", "r", "y">>
EACCES ==
    <<"E", "A", "C", "C", "E", "S", ":", " ", "p", "e", "r", "m", "i", "s", "s", "i", "o", "n", " ", "d", "e", "n", "i", "e", "d">>

Directories ==
    {[ok |-> FALSE, message |-> ENOENT]}
        \cup {[ok |-> TRUE, files |-> S] : S \in SUBSET DirectoryFiles}

RequestedNames ==
    { <<>>,
      SecretFile,
      <<".", ".", "/", "s", "e", "c", "r", "e", "t", ".", "c", "s", "v">>,
      <<"s", "e", "c", "r", "e", "t", ".", "C", "S", "V">>,
      <<"S", "e", "c", "r", "e", "t", ".", "c", "s", "v">>,
      NotesFile,
      <<"r", "e", "p", "o", "r", "t", "s", "/">>,
      <<"e", "x", "p", "o", "r", "t", "s", "/", "s", "e", "c", "r", "e", "t", ".", "c", "s", "v", "/">> }

ScenarioText ==
    <<"i", "t", "e", "m", ",", "v", "i", "s", "i", "t", "o", "r", "s", ",", "t", "o", "t", "a", "l", "\n", "/", "h", "o", "m", "e", ",", "1", "0", "0", ",", "1", "5", "0", "\n", "/", "a", "b", "o", "u", "t", ",", "5", "0", ",", "\"", "1", ",", "2", "0", "0", "\"", "\n">>
HeaderOnlyText ==
    <<"i", "t", "e", "m", ",", "v", "i", "s", "i", "t", "o", "r", "s", ",", "t", "o", "t", "a", "l", "\n">>
MixedText ==
    <<"P", "a", "g", "e", ",", "V", "i", "s", "i", "t", "o", "r", "s", ",", "T", "o", "t", "a", "l", "\r", "\n", "/", "a", ",", "2", ",", "5", "\r", "\n", "\r", "\n", "/", "A", "/", "b", ",", "2", ",", "3", "\r", "\n", ",", "9", ",", "9", "\r", "\n", "/", "b", ",", "k", "\r", "\n", " ", " ", "/", "a", "b", ",", "-", "5", ",", "1", " ", " ", "\r", "\n", "\"", "/", "a", ",", "c", "\"", ",", "1", ",", "4", ",", "e", "x", "t", "r", "a", "\r", "\n", "/", "a", "/", "d", ",", "3", ",", "3">>
TiesText ==
    <<"h", "\n", "/", "a", ",", "1", ",", "2", "\n", "/", "b", ",", "1", ",", "1", "\n", "/", "A", ",", "2", ",", "1", "\n", "/", "c", ",", "1", ",", "2", "\n", "/", "a", "b", ",", "2", ",", "2", "\n">>

Unreadable == [ok |-> FALSE, message |-> EACCES]
FileOf(text) == [ok |-> TRUE, text |-> text]

Contents == {Unreadable} \cup {FileOf(t) : t \in {ScenarioText, HeaderOnlyText, MixedText, TiesText}}

\* Invocations that vary how the file is selected.
SelectionArgs ==
    {[DefaultArgs EXCEPT !.listReports = l, !.fileName = f, !.reportType = t, !.limit = k] :
        l \in {Absent, Some(TRUE), Some(FALSE)},
        f \in {Absent} \cup {Some(n) : n \in RequestedNames},
        t \in {Absent, Some(Pages), Some(Referrers), Some(OperatingSystems)},
        k \in {Absent, Some(1)}}

\* The largest threshold given as minVisitors or minTotal.
MaxThreshold == 2

\* Invocations that vary the filters, the sort and the limit.
QueryArgs ==
    {[DefaultArgs EXCEPT !.pageContains = c, !.startsWith = s,
                         !.minVisitors = v, !.minTotal = t,
                         !.sortBy = b, !.sortOrder = o,
                         !.limit = k, !.includeSummary = i] :
        c \in {Absent, Some(<<>>), Some(<<"A">>)},
        s \in {Absent, Some(<<"/", "a">>)},
        v \in {Absent, Some(MaxThreshold)},
        t \in {Absent, Some(MaxThreshold)},
        b \in {Absent, Some("visitors"), Some("total")},
        o \in {Absent, Some("asc"), Some("desc")},
        k \in {Absent, Some(0 - 5), Some(0), Some(1), Some(2), Some(200), Some(10000)},
        i \in {Absent, Some(FALSE)}}

Init ==
    /\ pc = "start"
    /\ \/ /\ args \in SelectionArgs
          /\ dir \in Directories
          /\ content \in {Unreadable, FileOf(ScenarioText)}
       \/ /\ args \in QueryArgs
          /\ dir = [ok |-> TRUE, files |-> {DEFAULT_FILE, ReferrersFile, NotesFile}]
          /\ content \in Contents
    /\ selectedFile = <<>> /\ rows = <<>> /\ filtered = <<>> /\ sorted = <<>>
    /\ top = <<>> /\ caught = <<>> /\ result = Pending
    /\ ParseIdle /\ NumberIdle /\ PriceIdle

Next ==
    \/ ListReports
    \/ ResolveFileName
    \/ ResolveFileNameByType
    \/ LoadRows
    \/ RunQuery

Spec == Init /\ [][Next]_vars

-----------------------------------------------------------------------------
(* Properties of getVercelTopPages *)

Returned == pc = "done"
QueryRan == pc = "done" /\ result.kind \in {"report", "noRows"}
ErrorText(message) == ErrorPrefix \o message

\* C1: the call never throws or rejects.  Whatever the criteria and whatever
\* readdir and readFile do, a call that has ended has returned one of the
\* texts (no error has left it), and on every failure path (the listing
\* fails, the resolver throws, the read fails after a successful listing) the
\* text begins with "Error" and ends with the message of the failure.
C1_NeverThrows ==
    /\ pc \in {"start", "load", "query", "done"}
    /\ Returned => result.kind \in {"error", "noReports", "list", "noRows", "report"}
    /\ Returned => (result.kind = "error" <=> caught # <<>>)
    /\ (Returned /\ caught # <<>>) =>
           /\ StartsWith(result.text, <<"E", "r", "r", "o", "r">>)
           /\ EndsWith(result.text, caught[1].message)
    /\ (Returned /\ ~dir.ok) => result = [kind |-> "error", text |-> ErrorText(dir.message)]
    /\ (Returned /\ selectedFile # <<>> /\ ~content.ok) =>
           result = [kind |-> "error", text |-> ErrorText(content.message)]

\* The read failed after the listing succeeded and a file was selected.
C1_Witness ==
    /\ Returned
    /\ dir.ok /\ selectedFile # <<>> /\ ~content.ok
    /\ result.kind = "error"

\* C2: the number of ranked rows is min(filteredCount, min(max(limit, 1), 200)),
\* the limit being 20 only when it is absent; so limit=0 returns what limit=1 does.
C2_LimitClamp ==
    QueryRan =>
        LET requested == IF IsGiven(args.limit) THEN Get(args.limit) ELSE 20
        IN  Len(top) = Min(Len(filtered), Min(Max(requested, 1), 200))

NoCriteria ==
    args.fileName = Absent /\ args.reportType = Absent /\ args.listReports = Absent

CsvIn(files) == {f \in files : EndsWith(f, CsvSuffix)}

IsLast(f, S) == f \in S /\ \A g \in S : g = f \/ StrLess(g, f)

\* C3 as stated: with no criteria the file selected is the default file name
\* when the listing has it, else the last .csv of the listing; the call fails,
\* with the empty-catalog error, only when the listing has no .csv.
C3_DefaultFileFirst ==
    (NoCriteria /\ pc # "start" /\ dir.ok) =>
        IF CsvIn(dir.files) = {}
        THEN Returned /\ result = [kind |-> "error", text |-> ErrorText(NoCsvFilesMessage)]
        ELSE IF DEFAULT_FILE \in dir.files
        THEN selectedFile = DEFAULT_FILE
        ELSE IsLast(selectedFile, CsvIn(dir.files))

\* C3 amended: with no criteria the file selected is the last .csv of the
\* listing whose name begins with "Top Pages - ", whether or not the default
\* file name is listed; the call fails, with the no-match error for 'pages',
\* exactly when the listing has no such file.
C3_LastTopPages ==
    (NoCriteria /\ pc # "start" /\ dir.ok) =>
        LET pages == {f \in CsvIn(dir.files) : StartsWith(f, <<"T", "o", "p", " ", "P", "a", "g", "e", "s", " ", "-", " ">>)}
        IN  IF pages = {}
            THEN /\ Returned
                 /\ selectedFile = <<>>
                 /\ result = [kind |-> "error",
                              text |-> ErrorText(<<"N", "o", " ", "C", "S", "V", " ", "f", "o", "u", "n", "d", " ", "f", "o", "r", " ", "r", "e", "p", "o", "r", "t", "T", "y", "p", "e", " ", "'", "p", "a", "g", "e", "s", "'">>)]
            ELSE /\ IsLast(selectedFile, pages)
                 /\ Returned /\ content.ok => result.kind \in {"report", "noRows"}

\* The default file is listed and a later Top Pages file is selected.
C3_Witness ==
    /\ NoCriteria /\ Returned
    /\ dir.ok /\ DEFAULT_FILE \in dir.files
    /\ selectedFile = PagesOctFile
    /\ result.kind = "report"

\* The basenames of requested: what is left once trailing slashes and
\* everything up to the last remaining slash are dropped.
BasenamesOf(requested) ==
    LET n == Len(requested)
    IN  { Slice(requested, i, j) : <<i, j>> \in
            { ij \in (1..(n + 1)) \X (0..n) :
                /\ ij[1] <= ij[2] + 1
                /\ \A t \in ij[1]..ij[2] : requested[t] # "/"
                /\ ij[1] > 1 => requested[ij[1] - 1] = "/"
                /\ \A t \in (ij[2] + 1)..n : requested[t] = "/"
                /\ ij[1] > ij[2] => \A t \in 1..n : requested[t] = "/" } }

ByFileName ==
    /\ IsGiven(args.fileName) /\ Get(args.fileName) # <<>>
    /\ args.listReports # Some(TRUE)
    /\ pc # "start" /\ dir.ok

Selected(name) == selectedFile = name /\ (caught # <<>> => selectedFile # <<>> /\ ~content.ok)
Failed(message) ==
    /\ Returned /\ selectedFile = <<>>
    /\ result = [kind |-> "error", text |-> ErrorText(message)]

\* C4 as stated: resolve-by-filename fails with the invalid-format error
\* whenever the basename does not end in .csv, with the not-found error
\* whenever a basename ending in .csv is not in the listing, and otherwise
\* selects exactly the basename.
C4_ResolveByName ==
    ByFileName =>
        \A name \in BasenamesOf(Get(args.fileName)) :
                IF ~EndsWith(name, CsvSuffix) THEN Failed(NotCsvMessage)
                ELSE IF name \notin dir.files THEN Failed(NotFoundPrefix \o name)
                ELSE Selected(name)

\* C4 amended: when the listing has no .csv file at all the call fails with
\* the empty-catalog error, whatever the name; when it has one, the statement
\* above holds.
C4_ResolveByNameInCatalog ==
    ByFileName =>
        \A name \in BasenamesOf(Get(args.fileName)) :
                IF CsvIn(dir.files) = {} THEN Failed(NoCsvFilesMessage)
                ELSE IF ~EndsWith(name, CsvSuffix) THEN Failed(NotCsvMessage)
                ELSE IF name \notin dir.files THEN Failed(NotFoundPrefix \o name)
                ELSE Selected(name)

\* "../secret.csv" is asked for, the catalog has .csv files but no secret.csv.
C4_Witness ==
    /\ ByFileName
    /\ args.fileName = Some(<<".", ".", "/", "s", "e", "c", "r", "e", "t", ".", "c", "s", "v">>)
    /\ SecretFile \notin dir.files /\ CsvIn(dir.files) # {}
    /\ Failed(NotFoundPrefix \o SecretFile)

\* The sort key of a row under the criteria: total when asked for, else visitors.
KeyOf(row) == IF args.sortBy = Some("total") THEN row.total ELSE row.visitors
Ascending == args.sortOrder = Some("asc")

\* C7: the sorted rows are a permutation of the filtered rows, non-decreasing
\* in the chosen field for asc and non-increasing for desc (the default), and
\* rows of equal key keep the order they have in the filtered sequence.
C7_StableSort ==
    QueryRan =>
        /\ Len(sorted) = Len(filtered)
        /\ \A i, j \in 1..Len(sorted) :
              i < j => IF Ascending THEN KeyOf(sorted[i]) <= KeyOf(sorted[j])
                                    ELSE KeyOf(sorted[i]) >= KeyOf(sorted[j])
        /\ \A k \in {KeyOf(filtered[i]) : i \in 1..Len(filtered)} :
              SelectSeq(sorted, LAMBDA r : KeyOf(r) = k)
                  = SelectSeq(filtered, LAMBDA r : KeyOf(r) = k)
        /\ top = Slice(sorted, 1, Len(top))

\* Rows were reordered, and two different rows of equal key were kept in order.
C7_Witness ==
    /\ QueryRan
    /\ sorted # filtered
    /\ \E i, j \in 1..Len(filtered) :
          i < j /\ filtered[i] # filtered[j] /\ KeyOf(filtered[i]) = KeyOf(filtered[j])

\* A row passes when every predicate that was given holds of it.
Passes(row, a) ==
    /\ IsGiven(a.pageContains) =>
           Includes(ToLowerCase(row.item), ToLowerCase(Get(a.pageContains)))
    /\ IsGiven(a.startsWith) => StartsWith(row.item, Get(a.startsWith))
    /\ IsGiven(a.minVisitors) => row.visitors >= Get(a.minVisitors)
    /\ IsGiven(a.minTotal) => row.total >= Get(a.minTotal)

Without(a) ==
    { [a EXCEPT !.pageContains = Absent], [a EXCEPT !.startsWith = Absent],
      [a EXCEPT !.minVisitors = Absent], [a EXCEPT !.minTotal = Absent] }

\* C8: the filter keeps a row iff every given predicate passes, an absent
\* filter constrains nothing, and the criteria with one predicate fewer never
\* match fewer rows.
C8_Filter ==
    QueryRan =>
        /\ filtered = SelectSeq(rows, LAMBDA row : Passes(row, args))
        /\ \A fewer \in Without(args) :
              Len(FilterRows(rows, args)) <= Len(FilterRows(rows, fewer))

\* All four predicates are given; some rows pass, one of them by a match that
\* differs in case, and some do not.
C8_Witness ==
    /\ QueryRan
    /\ IsGiven(args.pageContains) /\ IsGiven(args.startsWith)
    /\ IsGiven(args.minVisitors) /\ IsGiven(args.minTotal)
    /\ filtered # <<>> /\ Len(filtered) < Len(rows)
    /\ \E i \in 1..Len(filtered) : ~Includes(filtered[i].item, Get(args.pageContains))

\* C9: the matched-row count and the visitor and visit totals reported are
\* those of every row that passed the filters, whatever the limit, so they are
\* the figures limit=200 reports; "Rows scanned" is the number of rows loaded.
C9_SummaryOverMatched ==
    QueryRan =>
        /\ result.kind = "noRows" => result.rowsScanned = Len(rows)
        /\ (result.kind = "report" /\ args.includeSummary # Some(FALSE)) =>
              LET matched == SelectSeq(rows, LAMBDA row : Passes(row, args))
                  s == result.summary[1]
              IN  /\ s.rowsScanned = Len(rows)
                  /\ s.rowsMatched = Len(matched)
                  /\ s.totalVisitors = SumVisitors(matched)
                  /\ s.totalVisits = SumTotal(matched)
                  /\ result.summary
                        = Query(selectedFile, rows, [args EXCEPT !.limit = Some(200)]).result.summary

\* A summary is reported with fewer rows shown than matched.
C9_Witness ==
    /\ QueryRan
    /\ result.kind = "report" /\ result.summary # <<>>
    /\ Len(top) < Len(filtered)
    /\ result.summary[1].totalVisitors > SumVisitors(top)

-----------------------------------------------------------------------------
(* parseCsvLine applied to lines built from fields *)

MaxFields == 2
MaxFieldLen == 2

\* A plain character, the separator and the quote.
CsvAlphabet == {"a", ",", "\""}

\* A field as written into a line: wrapped in double quotes, its own quotes
\* doubled, when it holds a comma or a quote; as it is otherwise.
RECURSIVE DoubleQuotes(_)
DoubleQuotes(f) ==
    IF f = <<>> THEN <<>>
    ELSE (IF Head(f) = "\"" THEN <<"\"", "\"">> ELSE <<Head(f)>>) \o DoubleQuotes(Tail(f))

EncodeField(f) ==
    IF \E i \in 1..Len(f) : f[i] \in {",", "\""}
    THEN <<"\"">> \o DoubleQuotes(f) \o <<"\"">>
    ELSE f

RECURSIVE EncodeLine(_)
EncodeLine(fs) ==
    IF Len(fs) = 1 THEN EncodeField(fs[1])
    ELSE EncodeField(fs[1]) \o <<",">> \o EncodeLine(Tail(fs))

InitParse ==
    /\ source \in UNION {[1..n -> StringsUpTo(CsvAlphabet, MaxFieldLen)] : n \in 1..MaxFields}
    /\ line = EncodeLine(source)
    /\ fields = <<>>
    /\ TopPagesIdle /\ NumberIdle /\ PriceIdle

\* fields is empty until the line is parsed: parseCsvLine returns at least one field.
ParseLine ==
    /\ fields = <<>>
    /\ fields' = parseCsvLine(line)
    /\ UNCHANGED <<source, line, topPagesVars, numberVars, priceVars>>

SpecParse == InitParse /\ [][ParseLine]_vars

\* C6: parsing the line built from N >= 1 fields (a field holding a comma or a
\* quote wrapped in quotes, its quotes doubled; the fields joined by commas)
\* gives back exactly those N fields, in order.
C6_RoundTrip == fields # <<>> => fields = source

\* Two fields are parsed back, one of them holding both a quote and a comma.
C6_Witness ==
    /\ fields # <<>>
    /\ Len(source) = 2
    /\ \E i \in 1..2 : source[i] = <<"\"", ",">>

-----------------------------------------------------------------------------
(* toNumber applied to raw field texts *)

MaxTextLen == 3

NumberAlphabet == {"0", "1", "2", ",", "-", "+", " ", "k"}

NumberTexts ==
    StringsUpTo(NumberAlphabet, MaxTextLen)
        \cup { <<"1", ",", "2", "0", "0">>,
               InfinityText,
               <<"-">> \o InfinityText,
               <<"N", "/", "A">> }

InitNumber ==
    /\ value \in NumberTexts
    /\ coerced = <<>>
    /\ TopPagesIdle /\ ParseIdle /\ PriceIdle

\* coerced holds the number returned, once toNumber has returned.
Coerce ==
    /\ coerced = <<>>
    /\ coerced' = <<toNumber(value)>>
    /\ UNCHANGED <<value, topPagesVars, parseVars, priceVars>>

SpecNumber == InitNumber /\ [][Coerce]_vars

\* C5: for any text (empty, non-numeric, signed, comma-grouped) toNumber
\* returns a finite number that is >= 0.
C5_NonNegative == coerced # <<>> => (coerced[1] \in Int /\ coerced[1] >= 0)

-----------------------------------------------------------------------------
(* updatePrice: invocations against the vehicles table *)

NumVehicles == 2
NumCalls == 2
MaxPrice == 2

VehicleIds == 1..NumVehicles
CallIds == 1..NumCalls

\* The table as the model starts it: two vehicles may share a VIN, stock
\* numbers differ, and a vehicle may already be soft-deleted.
VinOf(v) == IF v <= 2 THEN "VIN-A" ELSE "VIN-B"
StockOf(v) == IF v = 1 THEN "S-1" ELSE "S-2"

\* The identifiers and prices an invocation may be given.
UpdateArgs ==
    [id : {Absent, Some(1)},
     vin : {Absent, Some("VIN-A")},
     stockNumber : {Absent, Some("S-1"), Some("S-9")},
     price : {Absent} \cup {Some(p) : p \in 1..MaxPrice}]

NotCalled ==
    [pc |-> "idle", credentials |-> FALSE, args |-> [id |-> Absent, vin |-> Absent,
     stockNumber |-> Absent, price |-> Absent], found |-> <<>>, writes |-> <<>>,
     result |-> ""]

InitPrice ==
    /\ vehicles \in [VehicleIds -> [price : {0}, deleted : BOOLEAN, updated_by : {0}]]
    /\ calls = [c \in CallIds |-> NotCalled]
    /\ TopPagesIdle /\ ParseIdle /\ NumberIdle

\* [id, vin, stockNumber].filter((v) => v !== undefined).length
IdentifierCount(a) ==
    (IF IsGiven(a.id) THEN 1 ELSE 0) + (IF IsGiven(a.vin) THEN 1 ELSE 0)
        + (IF IsGiven(a.stockNumber) THEN 1 ELSE 0)

\* Lines 33-50: the checks made before the store is touched; "" when all pass.
Validate(credentials, a) ==
    IF ~credentials THEN "Error: Missing Supabase credentials."
    ELSE IF IdentifierCount(a) = 0 THEN "Error: Please provide one identifier"
    ELSE IF IdentifierCount(a) > 1 THEN "Error: Please provide only one identifier"
    ELSE IF ~IsGiven(a.price) THEN "Error: Please provide 'price'"
    ELSE ""

\* Lines 54-65: the ids of the rows the select returns, in id order.
MatchesIdentifier(v, a) ==
    IF IsGiven(a.id) THEN v = Get(a.id)
    ELSE IF IsGiven(a.vin) THEN VinOf(v) = Get(a.vin)
    ELSE IF IsGiven(a.stockNumber) THEN StockOf(v) = Get(a.stockNumber)
    ELSE TRUE

RECURSIVE IdsFrom(_, _)
IdsFrom(v, keep) ==
    IF v > NumVehicles THEN <<>>
    ELSE (IF v \in keep THEN <<v>> ELSE <<>>) \o IdsFrom(v + 1, keep)

SelectVehicles(table, a) ==
    IdsFrom(1, {v \in VehicleIds : ~table[v].deleted /\ MatchesIdentifier(v, a)})

\* updatePrice is called: the checks run and, when they pass, the select is sent.
Call(c) ==
    /\ calls[c].pc = "idle"
    /\ \E credentials \in BOOLEAN, a \in UpdateArgs :
          LET message == Validate(credentials, a)
          IN  calls' = [calls EXCEPT ![c] =
                  [@ EXCEPT !.credentials = credentials, !.args = a,
                            !.pc = IF message = "" THEN "selecting" ELSE "done",
                            !.result = message]]
    /\ UNCHANGED <<vehicles, topPagesVars, parseVars, numberVars>>

\* The select completes, lines 67-88: an error, no row or several rows end the
\* call; one row makes the call send the update of that row's id.
Select(c) ==
    /\ calls[c].pc = "selecting"
    /\ \E selectError \in BOOLEAN :
          LET found == SelectVehicles(vehicles, calls[c].args)
          IN  calls' = [calls EXCEPT ![c] =
                  IF selectError
                  THEN [@ EXCEPT !.pc = "done", !.result = "Error finding vehicle"]
                  ELSE IF Len(found) = 0
                  THEN [@ EXCEPT !.pc = "done", !.result = "No vehicle found"]
                  ELSE IF Len(found) > 1
                  THEN [@ EXCEPT !.pc = "done", !.found = found,
                                 !.result = "Error: Multiple vehicles found"]
                  ELSE [@ EXCEPT !.pc = "updating", !.found = found]]
    /\ UNCHANGED <<vehicles, topPagesVars, parseVars, numberVars>>

\* The update completes, lines 90-110: .update(updateData).eq("id", vehicle.id)
\* writes the row of that id, whatever its deleted_at is by now, or fails and
\* writes nothing.  writes records, for each write, the row and whether it was
\* soft-deleted when written.
Update(c) ==
    /\ calls[c].pc = "updating"
    /\ \E updateError \in BOOLEAN :
          LET id == calls[c].found[1]
          IN  IF updateError
              THEN /\ calls' = [calls EXCEPT ![c] =
                          [@ EXCEPT !.pc = "done", !.result = "Error updating vehicle price"]]
                   /\ UNCHANGED vehicles
              ELSE /\ vehicles' = [vehicles EXCEPT ![id] =
                          [@ EXCEPT !.price = Get(calls[c].args.price), !.updated_by = c]]
                   /\ calls' = [calls EXCEPT ![c] =
                          [@ EXCEPT !.pc = "done",
                                    !.writes = Append(@, [id |-> id, deleted |-> vehicles[id].deleted]),
                                    !.result = "Successfully updated vehicle price"]]
    /\ UNCHANGED <<topPagesVars, parseVars, numberVars>>

\* Another client of the store soft-deletes a vehicle (sets deleted_at).
SoftDelete(v) ==
    /\ ~vehicles[v].deleted
    /\ vehicles' = [vehicles EXCEPT ![v] = [@ EXCEPT !.deleted = TRUE]]
    /\ UNCHANGED <<calls, topPagesVars, parseVars, numberVars>>

NextPrice ==
    \/ \E c \in CallIds : Call(c)
    \/ \E c \in CallIds : Select(c)
    \/ \E c \in CallIds : Update(c)
    \/ \E v \in VehicleIds : SoftDelete(v)

SpecPrice == InitPrice /\ [][NextPrice]_vars

\* C10: an invocation writes to the store at most once, only the one vehicle
\* its lookup returned, and only with credentials, exactly one identifier, a
\* price, and a lookup that returned exactly one vehicle that was not deleted;
\* otherwise it leaves the store alone and returns a message; and no write
\* changes the price of a vehicle that is soft-deleted when it is written.
C10_GuardedWrite ==
    \A c \in CallIds :
        LET call == calls[c] IN
        /\ Len(call.writes) <= 1
        /\ \A i \in 1..Len(call.writes) :
              /\ call.credentials
              /\ IdentifierCount(call.args) = 1
              /\ IsGiven(call.args.price)
              /\ call.found = <<call.writes[i].id>>
              /\ ~call.writes[i].deleted
        /\ call.pc = "done" => call.result # ""
        /\ (call.pc = "done" /\ call.writes = <<>>) =>
              \A v \in VehicleIds : vehicles[v].updated_by # c

====
